---- MODULE Spec2Model ----
(***************************************************************************)
(* Model of the Kajetany BIP watcher: the crawl orchestrator               *)
(* (src/crawler/nadarzyn_bip/crawler.py), the item model (src/models.py),  *)
(* the item repository (src/item_repository.py) and the run of main.py.    *)
(*                                                                         *)
(* Optional values (Python `X | None`) are encoded as sequences:           *)
(* None is <<>> and a present value v is <<v>>.  Every item field but url   *)
(* is encoded this way (main_title and title of a ContentItem are never    *)
(* None); the values are strings, dates are ISO strings.                   *)
(***************************************************************************)
EXTENDS Integers, Sequences, FiniteSets, TLC

VARIABLES
    pc,             \* position of run()/crawl(): see the actions
    client,         \* the HttpClient of `with HttpClient() as client`
    items_to_crawl, \* crawl(): the work-list (list[RedirectItem])
    idx,            \* crawl(): index of item_to_crawl in items_to_crawl
    gen,            \* the crawl_url generator being iterated by crawl()
    new_items,      \* crawl(): accumulator (list[ContentItem])
    fetch_calls,    \* every client.fetch call, in order
    ended,          \* how each crawl_url generator ended, in order
    sleep_calls,    \* every time.sleep call, in order
    repo,           \* ItemRepository._items
    new_data,       \* run(): the items not in the repository
    csv_writes,     \* number of times items.csv was written by this run
    mails,          \* item lists handed to generate_email_content + send
    call            \* a function of the item model applied to drawn inputs

vars == <<pc, client, items_to_crawl, idx, gen, new_items, fetch_calls,
          ended, sleep_calls, repo, new_data, csv_writes, mails, call>>

crawlVars == <<pc, client, items_to_crawl, idx, gen, new_items, fetch_calls,
               ended, sleep_calls, repo, new_data, csv_writes, mails>>

-----------------------------------------------------------------------------
(* Bounds of the model *)

\* largest number of work-list entries the modelled site lets a crawl reach
MaxEntries == 3

\* largest number of results one page's parser yields
MaxResults == 2

\* number of parsers in Crawler.parsers
NumParsers == 3

\* time.sleep(1.5), in tenths of a second
PacingDelay == 15

-----------------------------------------------------------------------------
(* Python values *)

None == <<>>
Some(v) == <<v>>

\* bool(v) of an optional string or date: None and "" are falsy
Truthy(v) == v # None /\ v # Some("")

\* Python `a or b`
PyOr(a, b) == IF Truthy(a) THEN a ELSE b

\* Python `a or b` for a date or None: a date is always truthy
PyOrDate(a, b) == IF a # None THEN a ELSE b

-----------------------------------------------------------------------------
(* src/models.py *)

RedirectItem(url, main_title, title, description, attachment_url, published_at, created_at, last_modified_at) ==
    [type |-> "RedirectItem", url |-> url, main_title |-> main_title,
     title |-> title, description |-> description,
     attachment_url |-> attachment_url, published_at |-> published_at,
     created_at |-> created_at, last_modified_at |-> last_modified_at]

ContentItem(url, main_title, title, description, attachment_url, published_at, created_at, last_modified_at) ==
    [type |-> "ContentItem", url |-> url, main_title |-> main_title,
     title |-> title, description |-> description,
     attachment_url |-> attachment_url, published_at |-> published_at,
     created_at |-> created_at, last_modified_at |-> last_modified_at]

\* a parser result that is None
NoneResult == [type |-> "None"]

\* a plausible slip: published_at is taken from self.created_at
merge_with_redirect_swapped(self, redirect) ==
    ContentItem(self.url, self.main_title, self.title,
                PyOr(self.description, redirect.description),
                PyOr(self.attachment_url, redirect.attachment_url),
                PyOrDate(self.created_at, redirect.published_at),
                PyOrDate(self.created_at, redirect.created_at),
                PyOrDate(self.last_modified_at, redirect.last_modified_at))

\* ContentItem.merge_with_redirect
merge_with_redirect(self, redirect) ==
    ContentItem(self.url, self.main_title, self.title,
                PyOr(self.description, redirect.description),
                PyOr(self.attachment_url, redirect.attachment_url),
                PyOrDate(self.published_at, redirect.published_at),
                PyOrDate(self.created_at, redirect.created_at),
                PyOrDate(self.last_modified_at, redirect.last_modified_at))

-----------------------------------------------------------------------------
(* The site and the parsers, as the crawler sees them: what a fetch and a   *)
(* parser can answer.  Parsers are the mocks of tests/conftest.py: each     *)
(* has a can_parse answer and a sequence of results for the page.           *)

\* Crawler.base_url
base_url == "base"

\* URLs a fetch may resolve to (response.url): the site answers the search
\* submission (the seed) with a server-side redirect or without one
ResolvedUrls(url) == IF url = base_url THEN {url, "final"} ELSE {url}

\* RedirectItems a parser may yield
RedirectChoices ==
    { RedirectItem("u1", None, None, None, None, None, None, None),
      RedirectItem("u2", Some("Przetarg"), Some("Przetarg X"),
                   Some("snippet"), None, None, None, Some("2025-10-01")) }

\* ContentItems a parser may yield for the page at resolved_url: like the
\* items of tests/test_nadarzyn_bip_crawler.py, with a description of their
\* own and no dates
ContentChoices(resolved_url) ==
    { ContentItem(resolved_url, Some("Przetarg"), Some("Przetarg X"),
                  Some("body"), None, None, None, None) }

ResultChoices(resolved_url) ==
    {NoneResult} \cup RedirectChoices \cup ContentChoices(resolved_url)

\* the result sequences of at most n results
RECURSIVE SeqsUpTo(_, _)
SeqsUpTo(S, n) ==
    IF n = 0 THEN {<<>>}
    ELSE LET shorter == SeqsUpTo(S, n - 1)
         IN  shorter \cup {Append(q, x) : q \in shorter, x \in S}

NumRedirects(results) ==
    Cardinality({k \in 1..Len(results) : results[k].type = "RedirectItem"})

Parsers == 1..NumParsers

-----------------------------------------------------------------------------
(* src/crawler/http_client.py *)

\* HttpClient() and __enter__: a new session, open
HttpClientEnter(c) == [opened |-> c.opened + 1, closed |-> c.closed,
                       session |-> c.opened + 1, open |-> TRUE]

\* a crawl that never leaves the `with` block properly: session left open
HttpClientExitLeak(c) == c

\* HttpClient.__exit__: closes the session
HttpClientExit(c) == [c EXCEPT !.closed = @ + 1, !.open = FALSE]

-----------------------------------------------------------------------------
(* src/crawler/nadarzyn_bip/crawler.py *)

\* the loop without its break: the last accepting parser wins
RECURSIVE SelectParserNoBreak(_, _)
SelectParserNoBreak(accepts, i) ==
    IF i \notin DOMAIN accepts THEN 0
    ELSE LET later == SelectParserNoBreak(accepts, i + 1)
         IN  IF later # 0 THEN later ELSE IF accepts[i] THEN i ELSE 0

\* crawl_url lines 73-77: `for p in self.parsers: if p.can_parse(..): break`
\* from list position i on; 0 stands for `parser is None`
RECURSIVE SelectParser(_, _)
SelectParser(accepts, i) ==
    IF i \notin DOMAIN accepts THEN 0
    ELSE IF accepts[i] THEN i
    ELSE SelectParser(accepts, i + 1)

\* depth-first variant: the redirect is inserted right behind the current entry
EnqueueBehindCurrent(list, i, item) ==
    SubSeq(list, 1, i) \o <<item>> \o SubSeq(list, i + 1, Len(list))

\* crawl line 50: items_to_crawl.append(item), while entry i is being visited
Enqueue(list, i, item) == Append(list, item)

\* pacing only after an entry whose generator produced something
SleepIfProduced(calls, g) ==
    IF g.yielded > 0 THEN Append(calls, PacingDelay) ELSE calls

\* crawl line 59: time.sleep(1.5) after the inner loop over generator g
Sleep(calls, g) == Append(calls, PacingDelay)

\* a retry loop: the entry whose fetch failed is visited again
NextEntryRetry(i, g) == IF g.fetch_raised THEN i ELSE i + 1

\* crawl line 43: the `for` over items_to_crawl moves on to the next index
NextEntry(i, g) == i + 1

NoGen == [state |-> "none"]

\* a crawl_url that hands the requested URL to the parsers
CrawlUrlRequestedUrl(url, fetch_raised, resolved_url, accepts, results, parse_raises) ==
    LET parser == IF fetch_raised THEN 0 ELSE SelectParser(accepts, 1)
    IN  [state        |-> "running",
         url          |-> url,
         fetch_raised |-> fetch_raised,
         resolved_url |-> url,
         parse_calls  |-> IF parser = 0 THEN {} ELSE {parser},
         pending      |-> IF parser = 0 THEN <<>> ELSE results,
         parse_raises |-> parser # 0 /\ parse_raises,
         yielded      |-> 0]

\* crawl_url lines 64-88 up to its first suspension: the fetch, the parser
\* selection and the start of parser.parse.  The exceptions of fetch and of
\* parse are caught by line 86 and the generator returns (line 88).
\* resolved_url is the URL handed to can_parse and to parse (line 68).
CrawlUrl(url, fetch_raised, resolved_url, accepts, results, parse_raises) ==
    LET parser == IF fetch_raised THEN 0 ELSE SelectParser(accepts, 1)
    IN  [state        |-> "running",
         url          |-> url,
         fetch_raised |-> fetch_raised,
         resolved_url |-> IF fetch_raised THEN url ELSE resolved_url,
         parse_calls  |-> IF parser = 0 THEN {} ELSE {parser},
         pending      |-> IF parser = 0 THEN <<>> ELSE results,
         parse_raises |-> parser # 0 /\ parse_raises,
         yielded      |-> 0]

\* crawl lines 39-42 of a Crawler whose base_url is url
Enter(url) ==
    /\ new_items' = <<>>
    /\ items_to_crawl' =
           <<RedirectItem(url, None, None, None, None, None, None, None)>>
    /\ idx' = 1
    /\ client' = HttpClientEnter(client)
    /\ pc' = "loop"
    /\ UNCHANGED <<gen, fetch_calls, ended, sleep_calls, repo, new_data,
                   csv_writes, mails, call>>

\* crawl lines 39-42: new_items = [], the seed entry, `with HttpClient()`
EnterCrawl ==
    /\ pc = "crawl"
    /\ Enter(base_url)

\* crawl lines 43-44 for the entry at idx, with what the fetch and the
\* parsers answer for its url
Visit(url, fetch_raised, resolved_url, accepts, results, parse_raises) ==
    /\ gen' = CrawlUrl(url, fetch_raised, resolved_url, accepts, results,
                       parse_raises)
    /\ fetch_calls' = Append(fetch_calls,
           [entry |-> idx, url |-> url, session |-> client.session,
            open |-> client.open, raised |-> fetch_raised])
    /\ pc' = "iter"
    /\ UNCHANGED <<client, items_to_crawl, idx, new_items, ended, sleep_calls,
                   repo, new_data, csv_writes, mails, call>>

\* crawl lines 43-44: the next work-list entry, and the first next() of
\* crawl_url(item_to_crawl.url, client)
VisitEntry ==
    /\ pc = "loop"
    /\ idx <= Len(items_to_crawl)
    /\ LET url == items_to_crawl[idx].url IN
       \E fetch_raised \in BOOLEAN, resolved_url \in ResolvedUrls(url),
          accepts \in [Parsers -> BOOLEAN], parse_raises \in BOOLEAN :
       \E results \in SeqsUpTo(ResultChoices(resolved_url), MaxResults) :
          /\ Len(items_to_crawl) + NumRedirects(results) <= MaxEntries
          \* what the generator never looks at is left at one value
          /\ fetch_raised =>
                resolved_url = url /\ accepts = [p \in Parsers |-> FALSE]
          /\ (fetch_raised \/ \A p \in Parsers : ~accepts[p]) =>
                results = <<>> /\ ~parse_raises
          /\ Visit(url, fetch_raised, resolved_url, accepts, results,
                   parse_raises)

\* a `break` in place of the `continue`: the rest of the page is dropped
SkipNoneBreak(pending) == <<>>

\* crawl lines 45-47: a None result is logged and the loop continues with
\* the results still to come
SkipNone(pending) == Tail(pending)

\* crawl lines 44-56: one result of the generator
HandleResult ==
    /\ pc = "iter"
    /\ gen.pending # <<>>
    /\ LET item == Head(gen.pending) IN
       /\ gen' = [gen EXCEPT !.pending = IF item.type = "None"
                                         THEN SkipNone(@) ELSE Tail(@),
                             !.yielded = @ + 1]
       /\ IF item.type = "None"
          THEN UNCHANGED <<items_to_crawl, new_items>>
          ELSE IF item.type = "RedirectItem"
          THEN /\ items_to_crawl' = Enqueue(items_to_crawl, idx, item)
               /\ UNCHANGED new_items
          ELSE /\ new_items' = Append(new_items,
                       merge_with_redirect(item, items_to_crawl[idx]))
               /\ UNCHANGED items_to_crawl
    /\ UNCHANGED <<pc, client, idx, fetch_calls, ended, sleep_calls, repo,
                   new_data, csv_writes, mails, call>>

\* a crawl_url that raises when no parser is suitable
CrawlUrlEndNoParserRaises(g) ==
    [fetch_raised |-> g.fetch_raised,
     how |-> IF ~g.fetch_raised /\ g.parse_calls = {}
             THEN "raised" ELSE "returned"]

\* crawl_url lines 79-81 and 86-88: without a suitable parser the generator
\* returns; an exception of fetch or of parse is caught and logged, and the
\* generator returns as it does after the last result
CrawlUrlEnd(g) ==
    [fetch_raised |-> g.fetch_raised, how |-> "returned"]

\* the generator is exhausted (or its parser raised, caught by line 86):
\* crawl_url returns, then crawl lines 58-59 and the next loop round
FinishEntry ==
    /\ pc = "iter"
    /\ gen.pending = <<>>
    /\ ended' = Append(ended, CrawlUrlEnd(gen))
    /\ gen' = NoGen
    /\ sleep_calls' = Sleep(sleep_calls, gen)
    /\ idx' = NextEntry(idx, gen)
    /\ pc' = "loop"
    /\ UNCHANGED <<client, items_to_crawl, new_items, fetch_calls, repo,
                   new_data, csv_writes, mails, call>>

\* crawl lines 42 and 61: the work-list is exhausted, the `with` block is
\* left and new_items is returned
ExitCrawl ==
    /\ pc = "loop"
    /\ idx > Len(items_to_crawl)
    /\ client' = HttpClientExit(client)
    /\ pc' = "crawled"
    /\ UNCHANGED <<items_to_crawl, idx, gen, new_items, fetch_calls, ended,
                   sleep_calls, repo, new_data, csv_writes, mails, call>>

-----------------------------------------------------------------------------
(* src/item_repository.py *)

\* ItemRepository.exists: equality of all the fields (pydantic __eq__)
exists(items, item) == \E k \in 1..Len(items) : items[k] = item

\* an add_item that appends without looking
add_item_always(items, item) == Append(items, item)

\* ItemRepository.add_item: the list after the call
add_item(items, item) ==
    IF ~exists(items, item) THEN Append(items, item) ELSE items

\* ItemRepository.add_items: the list after the call
RECURSIVE add_items(_, _)
add_items(items, added) ==
    IF added = <<>> THEN items
    ELSE add_items(add_item(items, Head(added)), Tail(added))

\* ItemRepository.from_dataframe: one ContentItem per CSV row (a NaN cell is
\* None); the attachment_url column is not read
RECURSIVE from_dataframe(_)
from_dataframe(rows) ==
    IF rows = <<>> THEN <<>>
    ELSE add_items(
           <<ContentItem(Head(rows).url, Head(rows).main_title,
                         Head(rows).title, Head(rows).description, None,
                         Head(rows).published_at, Head(rows).created_at,
                         Head(rows).last_modified_at)>>,
           from_dataframe(Tail(rows)))

\* rows of items.csv left by earlier runs
PastRow(url, description, attachment_url, last_modified_at) ==
    [url |-> url, main_title |-> Some("Przetarg"),
     title |-> Some("Przetarg X"),
     description |-> description, attachment_url |-> attachment_url,
     published_at |-> None, created_at |-> None,
     last_modified_at |-> last_modified_at]

PastCsvChoices ==
    { <<>>,
      <<PastRow("u2", Some("older snippet"), None, Some("2025-10-01")),
        PastRow("u1", Some("body"), None, None)>> }

-----------------------------------------------------------------------------
(* main.py *)

\* run lines 66-87: what is new, the store, the report and the mail
Run ==
    /\ pc = "crawled"
    /\ LET IsNew(item) == ~exists(repo, item)
           found == SelectSeq(new_items, IsNew)
       IN  /\ new_data' = found
           /\ IF Len(found) > 0
              THEN /\ repo' = add_items(repo, found)
                   /\ csv_writes' = csv_writes + 1
                   /\ mails' = Append(mails, found)
              ELSE UNCHANGED <<repo, csv_writes, mails>>
    /\ pc' = "done"
    /\ UNCHANGED <<client, items_to_crawl, idx, gen, new_items, fetch_calls,
                   ended, sleep_calls, call>>

-----------------------------------------------------------------------------
(* The run of main.py *)

Init ==
    /\ pc = "crawl"
    /\ client = [opened |-> 0, closed |-> 0, session |-> 0, open |-> FALSE]
    /\ items_to_crawl = <<>>
    /\ idx = 0
    /\ gen = NoGen
    /\ new_items = <<>>
    /\ fetch_calls = <<>>
    /\ ended = <<>>
    /\ sleep_calls = <<>>
    /\ repo \in {from_dataframe(rows) : rows \in PastCsvChoices}
    /\ new_data = <<>>
    /\ csv_writes = 0
    /\ mails = <<>>
    /\ call = [fn |-> "none"]

Next ==
    \/ EnterCrawl
    \/ VisitEntry
    \/ HandleResult
    \/ FinishEntry
    \/ ExitCrawl
    \/ Run

Spec == Init /\ [][Next]_vars

-----------------------------------------------------------------------------
(* ContentItem.merge_with_redirect applied to drawn items *)

DescriptionValues == {None, Some(""), Some("snippet"), Some("body")}
AttachmentValues == {None, Some("plik.pdf")}
DateValues == {None, Some("2025-10-01"), Some("2025-10-02")}

ContentInputs ==
    { ContentItem("u1", Some("Przetarg"), Some("Przetarg X"), d, a, p, c, m) :
        d \in DescriptionValues, a \in AttachmentValues,
        p \in DateValues, c \in DateValues, m \in DateValues }

RedirectInputs ==
    { RedirectItem("u1", Some("Wyniki"), None, d, a, p, c, m) :
        d \in DescriptionValues, a \in AttachmentValues,
        p \in DateValues, c \in DateValues, m \in DateValues }

\* c.merge_with_redirect(r)
Merge ==
    /\ call.fn = "input"
    /\ call' = [fn |-> "merge_with_redirect", c |-> call.c, r |-> call.r,
                result |-> merge_with_redirect(call.c, call.r)]
    /\ UNCHANGED crawlVars

\* c.merge_with_redirect(r).merge_with_redirect(r)
MergeAgain ==
    /\ call.fn = "merge_with_redirect"
    /\ call' = [fn |-> "merge_again", c |-> call.c, r |-> call.r,
                first |-> call.result,
                result |-> merge_with_redirect(call.result, call.r)]
    /\ UNCHANGED crawlVars

InitIdle ==
    /\ pc = "idle"
    /\ client = [opened |-> 0, closed |-> 0, session |-> 0, open |-> FALSE]
    /\ items_to_crawl = <<>>
    /\ idx = 0
    /\ gen = NoGen
    /\ new_items = <<>>
    /\ fetch_calls = <<>>
    /\ ended = <<>>
    /\ sleep_calls = <<>>
    /\ repo = <<>>
    /\ new_data = <<>>
    /\ csv_writes = 0
    /\ mails = <<>>

InitMerge ==
    /\ InitIdle
    /\ call \in [fn : {"input"}, c : ContentInputs, r : RedirectInputs]

NextMerge == Merge \/ MergeAgain

SpecMerge == InitMerge /\ [][NextMerge]_vars

-----------------------------------------------------------------------------
(* Crawler.crawl_url applied to drawn pages and parser answers *)

\* crawl_url(url, client) up to its first suspension
CrawlUrlCall ==
    /\ call.fn = "input"
    /\ call' = [call EXCEPT !.fn = "crawl_url"] @@
                [gen |-> CrawlUrl(call.url, call.fetch_raised,
                                  call.resolved_url, call.accepts,
                                  call.results, call.parse_raises)]
    /\ UNCHANGED crawlVars

InitCrawlUrl ==
    /\ InitIdle
    /\ \E resolved_url \in ResolvedUrls(base_url) :
          call \in [fn : {"input"}, url : {base_url},
                    fetch_raised : BOOLEAN,
                    resolved_url : {resolved_url},
                    accepts : [Parsers -> BOOLEAN],
                    results : SeqsUpTo(ResultChoices(resolved_url),
                                       MaxResults),
                    parse_raises : BOOLEAN]

NextCrawlUrl == CrawlUrlCall

SpecCrawlUrl == InitCrawlUrl /\ [][NextCrawlUrl]_vars

-----------------------------------------------------------------------------
(* ItemRepository.exists applied to drawn repositories and items *)

\* largest repository drawn
MaxStore == 2

StoreItems ==
    { ContentItem(u, Some("Przetarg"), t, d, None, None, None, m) :
        u \in {"u1", "u2"}, t \in {Some("Przetarg X"), Some("Przetarg Y")},
        d \in {None, Some("snippet")}, m \in {None, Some("2025-10-01")} }

\* ItemRepository(items).exists(item)
Exists ==
    /\ call.fn = "input"
    /\ call' = [fn |-> "exists", items |-> call.items, item |-> call.item,
                result |-> exists(add_items(<<>>, call.items), call.item)]
    /\ UNCHANGED crawlVars

InitExists ==
    /\ InitIdle
    /\ call \in [fn : {"input"}, items : SeqsUpTo(StoreItems, MaxStore),
                 item : StoreItems]

NextExists == Exists

SpecExists == InitExists /\ [][NextExists]_vars

-----------------------------------------------------------------------------
(* src/crawler/datetime_extractor.py.  A text is a sequence of one-character
   strings; "d" in a pattern stands for the class \d. *)

\* the longest text is made of MaxChunks pieces of DateChunks
MaxChunks == 3

Digits == {"0", "1", "2", "3", "4", "5", "6", "7", "8", "9"}

DigitValue(ch) ==
    CASE ch = "0" -> 0 [] ch = "1" -> 1 [] ch = "2" -> 2 [] ch = "3" -> 3
      [] ch = "4" -> 4 [] ch = "5" -> 5 [] ch = "6" -> 6 [] ch = "7" -> 7
      [] ch = "8" -> 8 [] ch = "9" -> 9

RECURSIVE Number(_)
\* int() of a sequence of digits
Number(chars) ==
    IF chars = <<>> THEN 0
    ELSE 10 * Number(SubSeq(chars, 1, Len(chars) - 1))
         + DigitValue(chars[Len(chars)])

\* \w over the alphabet of the texts: the digits and the letter x
IsWordChar(ch) == ch \in Digits \cup {"x"}

\* \b before position i: exactly one of the two neighbours is a word character
WordBoundary(text, i) ==
    LET before == i > 1 /\ IsWordChar(text[i - 1])
        after  == i <= Len(text) /\ IsWordChar(text[i])
    IN  before # after

ElementMatches(e, ch) == IF e = "d" THEN ch \in Digits ELSE ch = e

\* the pattern \b(...)\b matches text at position i
MatchAt(text, regex, i) ==
    /\ i + Len(regex) - 1 <= Len(text)
    /\ WordBoundary(text, i)
    /\ \A k \in 1..Len(regex) : ElementMatches(regex[k], text[i + k - 1])
    /\ WordBoundary(text, i + Len(regex))

\* pattern.search(text): the position of the leftmost match, 0 for no match
search(text, regex) ==
    LET S == {i \in 1..Len(text) : MatchAt(text, regex, i)}
    IN  IF S = {} THEN 0 ELSE CHOOSE i \in S : \A j \in S : i <= j

\* match.group(1)
group(text, regex, i) == SubSeq(text, i, i + Len(regex) - 1)

PolishDate  == <<"d", "d", ".", "d", "d", ".", "d", "d", "d", "d">>
IsoDate     == <<"d", "d", "d", "d", "-", "d", "d", "-", "d", "d">>
IsoDateTime == IsoDate \o <<" ", "d", "d", ":", "d", "d">>

\* the list with the date-and-time pattern first
DATETIME_PATTERNS_TimeFirst ==
    << [regex |-> IsoDateTime, format |-> "%Y-%m-%d %H:%M"],
       [regex |-> PolishDate,  format |-> "%d.%m.%Y"],
       [regex |-> IsoDate,     format |-> "%Y-%m-%d"] >>

DATETIME_PATTERNS ==
    << [regex |-> PolishDate,  format |-> "%d.%m.%Y"],
       [regex |-> IsoDate,     format |-> "%Y-%m-%d"],
       [regex |-> IsoDateTime, format |-> "%Y-%m-%d %H:%M"] >>

\* what a call ends with: a returned value or a raised exception
Return(v) == [raised |-> None, value |-> v]
Raise(e)  == [raised |-> Some(e), value |-> None]

IsLeap(year) == year % 4 = 0 /\ (year % 100 # 0 \/ year % 400 = 0)

DaysInMonth(year, month) ==
    IF month = 2 THEN (IF IsLeap(year) THEN 29 ELSE 28)
    ELSE IF month \in {4, 6, 9, 11} THEN 30 ELSE 31

\* the field values datetime() accepts
ValidDateTime(f) ==
    /\ f.year >= 1
    /\ f.month \in 1..12
    /\ f.day >= 1 /\ f.day <= DaysInMonth(f.year, f.month)
    /\ f.hour <= 23
    /\ f.minute <= 59

\* datetime.strptime(s, format) for a string s matched by the regex that goes
\* with format: every field has its full width, so a directive fails only
\* on the value of its digits
strptime(s, format) ==
    LET n(a, b) == Number(SubSeq(s, a, b))
        f == CASE format = "%d.%m.%Y" ->
                    [year |-> n(7, 10), month |-> n(4, 5), day |-> n(1, 2),
                     hour |-> 0, minute |-> 0]
               [] format = "%Y-%m-%d" ->
                    [year |-> n(1, 4), month |-> n(6, 7), day |-> n(9, 10),
                     hour |-> 0, minute |-> 0]
               [] format = "%Y-%m-%d %H:%M" ->
                    [year |-> n(1, 4), month |-> n(6, 7), day |-> n(9, 10),
                     hour |-> n(12, 13), minute |-> n(15, 16)]
    IN  IF ValidDateTime(f) THEN Return(Some(f)) ELSE Raise("ValueError")

\* a guard that lets None through
NotTextEmptyOnly(text) == text = Some(<<>>)

\* extract_datetime line 13: `not text` is true of None and of ""
NotText(text) == text = None \/ text = Some(<<>>)

RECURSIVE extract_from(_, _)

\* an except clause that goes on with the next pattern
OnValueErrorNextPattern(text, k) == extract_from(text, k + 1)

\* extract_datetime lines 21-22: except ValueError: return None
OnValueError(text, k) == Return(None)

\* extract_datetime lines 16-23: the loop over the patterns from the k-th on
extract_from(text, k) ==
    IF k > Len(DATETIME_PATTERNS) THEN Return(None)
    ELSE LET pattern == DATETIME_PATTERNS[k]
             pos     == search(text, pattern.regex)
         IN  IF pos = 0 THEN extract_from(text, k + 1)
             ELSE LET parsed == strptime(group(text, pattern.regex, pos),
                                         pattern.format)
                  IN  IF parsed.raised = Some("ValueError")
                      THEN OnValueError(text, k)
                      ELSE parsed

\* extract_datetime lines 12-23; pattern.search(None) raises TypeError
extract_datetime(text) ==
    IF NotText(text) THEN Return(None)
    ELSE IF text = None THEN Raise("TypeError")
    ELSE extract_from(text[1], 1)

\* pieces of page text: valid and invalid dates of each format, a time of
\* day, a date without zero padding, a date with slashes, and glue
DateChunks ==
    { <<"1", "5", ".", "0", "3", ".", "2", "0", "2", "5">>,
      <<"3", "2", ".", "1", "3", ".", "2", "0", "2", "5">>,
      <<"2", "9", ".", "0", "2", ".", "2", "0", "2", "3">>,
      <<"2", "9", ".", "0", "2", ".", "2", "0", "2", "4">>,
      <<"2", "0", "2", "5", "-", "0", "3", "-", "1", "6">>,
      <<"2", "0", "2", "5", "-", "1", "3", "-", "4", "0">>,
      <<" ", "1", "4", ":", "3", "0">>,
      <<"2", "0", "2", "5", "-", "3", "-", "1", "5">>,
      <<"1", "5", "/", "0", "3", "/", "2", "0", "2", "5">>,
      <<" ">>,
      <<"x">>,
      <<"7">> }

RECURSIVE Concat(_)
Concat(chunks) ==
    IF chunks = <<>> THEN <<>> ELSE Head(chunks) \o Concat(Tail(chunks))

TextInputs ==
    {None} \cup {Some(Concat(cs)) : cs \in SeqsUpTo(DateChunks, MaxChunks)}

ExtractDatetime ==
    /\ call.fn = "input"
    /\ call' = [fn |-> "extract_datetime", text |-> call.text,
                result |-> extract_datetime(call.text)]
    /\ UNCHANGED crawlVars

InitDatetime ==
    /\ InitIdle
    /\ call \in [fn : {"input"}, text : TextInputs]

NextDatetime == ExtractDatetime

SpecDatetime == InitDatetime /\ [][NextDatetime]_vars

-----------------------------------------------------------------------------
(* src/crawler/url_manipulation.py, src/crawler/new/base_parser.py and
   src/crawler/new/parser.py.  A URL is the record of its urlparse
   components, [path, query, fragment], all URLs being on the one site;
   query is the sequence of its name=value pairs.  A DOM is the record of
   what the selectors of the parsers find in the page. *)

\* the longest query string has MaxParams parameters
MaxParams == 2

\* the longest result list has MaxRows rows
MaxRows == 2

Url(path, query, fragment) ==
    [path |-> path, query |-> query, fragment |-> fragment]

Param(name, value) == [name |-> name, value |-> value]

\* `sub in s` over the strings of the model: a string contains itself, and
\* an anchor contains its prefix
In(sub, s) ==
    \/ sub = s
    \/ sub = "akapit_" /\ s = "akapit_1"
    \/ sub = "plik_" /\ s = "plik_7"

\* `sub in url` for a sub that lies inside one component of the URL
UrlContains(sub, url) ==
    \/ In(sub, url.path)
    \/ \E i \in DOMAIN url.query :
           In(sub, url.query[i].name) \/ In(sub, url.query[i].value)
    \/ In(sub, url.fragment)

\* dict[name].append(value), a new name going to the end of the dict
DictAppend(d, name, value) ==
    IF \E i \in DOMAIN d : d[i].name = name
    THEN [i \in DOMAIN d |->
             IF d[i].name = name
             THEN [name |-> name, values |-> Append(d[i].values, value)]
             ELSE d[i]]
    ELSE Append(d, [name |-> name, values |-> <<value>>])

\* the dict of the lists of values of each name, in order of first occurrence
RECURSIVE GroupPairs(_)
GroupPairs(pairs) ==
    IF pairs = <<>> THEN <<>>
    ELSE LET last == pairs[Len(pairs)]
         IN  DictAppend(GroupPairs(SubSeq(pairs, 1, Len(pairs) - 1)),
                        last.name, last.value)

\* parse_qs(query, keep_blank_values=True)
parse_qs_keep_blank_values(query) == GroupPairs(query)

\* urllib.parse.parse_qs(query): parameters with a blank value are ignored
parse_qs(query) == GroupPairs(SelectSeq(query, LAMBDA p : p.value # ""))

\* urllib.parse.urlencode(query_params, doseq=True)
RECURSIVE urlencode(_)
urlencode(d) ==
    IF d = <<>> THEN <<>>
    ELSE [i \in 1..Len(d[1].values) |-> Param(d[1].name, d[1].values[i])]
         \o urlencode(Tail(d))

\* parse_url_components lines 4-8
parse_url_components(url) ==
    [parsed_url |-> url, query_params |-> parse_qs(url.query)]

\* reconstruct_url lines 11-16
reconstruct_url(parsed_url, query_params) ==
    Url(parsed_url.path, urlencode(query_params), parsed_url.fragment)

\* query_params.pop(name, None)
DictPop(d, name) == SelectSeq(d, LAMBDA e : e.name # name)

\* query_params[name] = values
DictSet(d, name, values) ==
    IF \E i \in DOMAIN d : d[i].name = name
    THEN [i \in DOMAIN d |->
             IF d[i].name = name THEN [name |-> name, values |-> values]
             ELSE d[i]]
    ELSE Append(d, [name |-> name, values |-> values])

\* BaseParser._extract_title: the text of the h3 of the node, or the default
\* "Brak tytułu" (written in ASCII)
extract_title(node) == PyOr(node.h3, Some("Brak tytulu"))

\* the value a date-typed field of an item takes from a datetime: its date,
\* the time of day being 00:00
to_date(v) ==
    IF v = None THEN None
    ELSE Some([year |-> v[1].year, month |-> v[1].month, day |-> v[1].day])

\* BaseParser._extract_metadata of a node that exists, as the items keep it
extract_metadata(node) ==
    [published_at     |-> to_date(extract_datetime(node.published).value),
     created_at       |-> to_date(extract_datetime(node.created).value),
     last_modified_at |-> to_date(extract_datetime(node.modified).value)]

\* a can_parse of the configurator that does not look for the token
SearchPageConfiguratorParser_can_parse_any(url, dom) ==
    UrlContains("/redir,szukaj", url)

\* SearchPageConfiguratorParser.can_parse
SearchPageConfiguratorParser_can_parse(url, dom) ==
    UrlContains("/redir,szukaj", url) /\ ~UrlContains("_session_antiCSRF", url)

\* SearchPageConfiguratorParser._sanitize_query_parameters
sanitize_query_parameters(url) ==
    LET c == parse_url_components(url)
    IN  reconstruct_url(c.parsed_url,
                        DictPop(c.query_params, "_session_antiCSRF"))

\* a _prepare_search_url that leaves the token out
prepare_search_url_without_token(url, dom) ==
    LET c == parse_url_components(url)
    IN  Url(c.parsed_url.path, urlencode(c.query_params),
            c.parsed_url.fragment)

\* SearchPageConfiguratorParser._prepare_search_url; dom.token is the value
\* attribute of the hidden input, None without the input or the attribute
prepare_search_url(url, dom) ==
    LET c == parse_url_components(url)
        query_params ==
            IF Truthy(dom.token)
            THEN DictSet(c.query_params, "_session_antiCSRF", <<dom.token[1]>>)
            ELSE c.query_params
    IN  Url(c.parsed_url.path, urlencode(query_params), c.parsed_url.fragment)

\* SearchPageConfiguratorParser.parse; a URL of the model is never the
\* empty string
SearchPageConfiguratorParser_parse(url, dom) ==
    LET sanitized_url == sanitize_query_parameters(url)
        prepared_url  == prepare_search_url(sanitized_url, dom)
    IN  IF prepared_url # sanitized_url
        THEN << RedirectItem(prepared_url, None, None, None, None, None,
                             None, None) >>
        ELSE <<>>

\* SearchPageResultsParser.can_parse
SearchPageResultsParser_can_parse(url, dom) ==
    UrlContains("/redir,szukaj", url) /\ UrlContains("_session_antiCSRF", url)

\* a _parse_item that skips the rows without a title
parse_item_skip_untitled(row) ==
    IF row.link = None \/ ~Truthy(row.title) THEN NoneResult
    ELSE RedirectItem(row.link[1], row.title, row.title, row.snippet,
                      None, None, None, None)

\* SearchPageResultsParser._parse_item; row.link is the URL that the text of
\* the cite element spells, None for a row without that text
parse_item(row) ==
    LET title == PyOr(row.title, Some("Brak tytulu"))
    IN  IF row.link = None THEN NoneResult
        ELSE RedirectItem(row.link[1], title, title, row.snippet,
                          None, None, None, None)

\* SearchPageResultsParser.parse
SearchPageResultsParser_parse(url, dom) ==
    [i \in 1..Len(dom.rows) |-> parse_item(dom.rows[i])]

\* dom.css_first("#" + anchor) among the article sections
ArticleById(dom, anchor) ==
    IF dom.article # None /\ dom.article[1].id = anchor
    THEN dom.article ELSE None

\* ArticleParser.can_parse
ArticleParser_can_parse(url, dom) == In("akapit_", url.fragment)

\* ArticleParser.parse
ArticleParser_parse(url, dom) ==
    LET article_node == ArticleById(dom, url.fragment)
    IN  IF article_node = None THEN <<>>
        ELSE LET title == extract_title(article_node[1])
                 dates == extract_metadata(article_node[1])
             IN  << ContentItem(url, title, title, None, None,
                                dates.published_at, dates.created_at,
                                dates.last_modified_at) >>

\* dom.css_first(".obiekt_akapit #" + anchor): the file of that id inside
\* the article section
FileInArticle(dom, anchor) ==
    IF /\ dom.article # None
       /\ dom.article[1].file # None
       /\ dom.article[1].file[1].id = anchor
    THEN dom.article[1].file ELSE None

\* ArticleAttachmentParser.can_parse
ArticleAttachmentParser_can_parse(url, dom) ==
    In("plik_", url.fragment) /\ FileInArticle(dom, url.fragment) # None

\* ArticleAttachmentParser.parse
ArticleAttachmentParser_parse(url, dom) ==
    IF dom.article = None THEN <<>>
    ELSE LET article_node    == dom.article[1]
             attachment_node == FileInArticle(dom, url.fragment)
             attachment_name ==
                 PyOr(IF attachment_node = None THEN None
                      ELSE attachment_node[1].name, Some("Brak nazwy"))
             dates == extract_metadata(article_node)
         IN  << ContentItem(url, extract_title(article_node),
                            attachment_name, None, None, dates.published_at,
                            dates.created_at, dates.last_modified_at) >>

\* ListAttachmentParser.can_parse
ListAttachmentParser_can_parse(url, dom) ==
    In("plik_", url.fragment) /\ FileInArticle(dom, url.fragment) = None

\* dom.css_first(".obiekt_pliki:has(#" + anchor + ")")
ContainerOf(dom, anchor) ==
    IF dom.container # None /\ dom.container[1].file[1].id = anchor
    THEN dom.container ELSE None

\* ListAttachmentParser.parse
ListAttachmentParser_parse(url, dom) ==
    LET container_node == ContainerOf(dom, url.fragment)
    IN  IF container_node = None THEN <<>>
        ELSE LET attachment_name ==
                     PyOr(container_node[1].file[1].name, Some("Brak nazwy"))
                 dates == extract_metadata(container_node[1])
             IN  << ContentItem(url, extract_title(container_node[1]),
                                attachment_name, None, None,
                                dates.published_at, dates.created_at,
                                dates.last_modified_at) >>

\* dom.css_first(".obiekt_akapit#" + anchor + " .akapit_skrot")
BriefOf(dom, anchor) ==
    IF ArticleById(dom, anchor) = None THEN None
    ELSE ArticleById(dom, anchor)[1].brief

\* ArticleBriefParser.can_parse
ArticleBriefParser_can_parse(url, dom) ==
    In("akapit_", url.fragment) /\ BriefOf(dom, url.fragment) # None

\* an ArticleBriefParser.parse that leaves the title of the preview behind
ArticleBriefParser_parse_untitled(url, dom) ==
    LET article_node == BriefOf(dom, url.fragment)
    IN  IF article_node = None THEN <<>>
        ELSE IF article_node[1].more_link = None THEN <<>>
        ELSE << RedirectItem(article_node[1].more_link[1], None, None,
                             None, None, None, None, None) >>

\* ArticleBriefParser.parse; brief.more_link is the URL that urljoin makes
\* of the href of the "read more" link, None without a link or a href
ArticleBriefParser_parse(url, dom) ==
    LET article_node == BriefOf(dom, url.fragment)
    IN  IF article_node = None THEN <<>>
        ELSE IF article_node[1].more_link = None THEN <<>>
        ELSE LET title == extract_title(article_node[1])
             IN  << RedirectItem(article_node[1].more_link[1], title, title,
                                 None, None, None, None, None) >>

\* FullArticleParser.can_parse
FullArticleParser_can_parse(url, dom) == TRUE

\* FullArticleParser.parse
FullArticleParser_parse(url, dom) ==
    IF dom.article = None THEN <<>>
    ELSE LET title == extract_title(dom.article[1])
             dates == extract_metadata(dom.article[1])
         IN  << ContentItem(url, title, title, None, None, dates.published_at,
                            dates.created_at, dates.last_modified_at) >>

\* AuctionAttachmentParser.can_parse: dom.auction says whether the page is
\* one this parser recognizes
AuctionAttachmentParser_can_parse(url, dom) == dom.auction

\* AuctionAttachmentParser.parse: its results are left out
AuctionAttachmentParser_parse(url, dom) == <<>>

\* p.can_parse(url, dom) by the class of p
can_parse(p, url, dom) ==
    CASE p = "SearchPageConfiguratorParser" ->
             SearchPageConfiguratorParser_can_parse(url, dom)
      [] p = "SearchPageResultsParser" ->
             SearchPageResultsParser_can_parse(url, dom)
      [] p = "AuctionAttachmentParser" ->
             AuctionAttachmentParser_can_parse(url, dom)
      [] p = "ArticleBriefParser" -> ArticleBriefParser_can_parse(url, dom)
      [] p = "ArticleParser" -> ArticleParser_can_parse(url, dom)
      [] p = "ArticleAttachmentParser" ->
             ArticleAttachmentParser_can_parse(url, dom)
      [] p = "ListAttachmentParser" ->
             ListAttachmentParser_can_parse(url, dom)
      [] p = "FullArticleParser" -> FullArticleParser_can_parse(url, dom)

\* p.parse(url, dom) by the class of p, as the sequence of what it yields
parse(p, url, dom) ==
    CASE p = "SearchPageConfiguratorParser" ->
             SearchPageConfiguratorParser_parse(url, dom)
      [] p = "SearchPageResultsParser" ->
             SearchPageResultsParser_parse(url, dom)
      [] p = "AuctionAttachmentParser" ->
             AuctionAttachmentParser_parse(url, dom)
      [] p = "ArticleBriefParser" -> ArticleBriefParser_parse(url, dom)
      [] p = "ArticleParser" -> ArticleParser_parse(url, dom)
      [] p = "ArticleAttachmentParser" ->
             ArticleAttachmentParser_parse(url, dom)
      [] p = "ListAttachmentParser" -> ListAttachmentParser_parse(url, dom)
      [] p = "FullArticleParser" -> FullArticleParser_parse(url, dom)

\* a list with the catch-all in front
MainParsersFallbackFirst ==
    << "FullArticleParser", "SearchPageConfiguratorParser",
       "SearchPageResultsParser", "AuctionAttachmentParser",
       "ArticleBriefParser", "ArticleParser", "ArticleAttachmentParser",
       "ListAttachmentParser" >>

\* main.py lines 54-63: the parsers of run()
MainParsers ==
    << "SearchPageConfiguratorParser", "SearchPageResultsParser",
       "AuctionAttachmentParser", "ArticleBriefParser", "ArticleParser",
       "ArticleAttachmentParser", "ListAttachmentParser",
       "FullArticleParser" >>

\* src/crawler/new/crawler.py lines 127-135: the parsers of __main__
NewMainParsers ==
    << "SearchPageConfiguratorParser", "SearchPageResultsParser",
       "ArticleBriefParser", "ArticleParser", "ArticleAttachmentParser",
       "ListAttachmentParser", "FullArticleParser" >>

\* the can_parse answers of the parsers of a list, by list position
Accepts(parsers, url, dom) ==
    [i \in DOMAIN parsers |-> can_parse(parsers[i], url, dom)]

\* crawl_url line 84: what the selected parser yields for the page
PageResults(parsers, url, dom) ==
    LET p == SelectParser(Accepts(parsers, url, dom), 1)
    IN  IF p = 0 THEN <<>> ELSE parse(parsers[p], url, dom)

\* the page of an article of the site, and texts of its metadata
DetailUrl == Url("/detail", <<>>, "akapit_1")

Text20251001 == Some(<<"2", "0", "2", "5", "-", "1", "0", "-", "0", "1">>)

Text32132025 == Some(<<"3", "2", ".", "1", "3", ".", "2", "0", "2", "5">>)

ParamChoices ==
    { Param("szukaj", "kajetany"), Param("szukaj", "bip"),
      Param("szukaj_data_od", ""), Param("szukaj_limit", "100"),
      Param("_session_antiCSRF", "old") }

UrlInputs ==
    { Url(path, query, fragment) :
        path \in {"/redir,szukaj", "/detail"},
        query \in SeqsUpTo(ParamChoices, MaxParams),
        fragment \in {"", "akapit_1", "plik_7"} }

\* a page without any of the elements the parsers look for
EmptyDom ==
    [token |-> None, rows |-> <<>>, article |-> None, container |-> None,
     auction |-> FALSE]

\* result rows: complete, without title and snippet, without link
RowChoices ==
    { [title |-> Some("Przetarg X"), link |-> Some(DetailUrl),
       snippet |-> Some("snippet")],
      [title |-> None, link |-> Some(DetailUrl), snippet |-> None],
      [title |-> Some("Przetarg X"), link |-> None,
       snippet |-> Some("snippet")] }

Section(id, h3, published, brief, file) ==
    [id |-> id, h3 |-> h3, published |-> published, created |-> None,
     modified |-> None, brief |-> brief, file |-> file]

File == Some([id |-> "plik_7", name |-> Some("plan.pdf")])

\* article sections: complete, without title and with an invalid date, a
\* preview with a "read more" link, a preview without one, and one with an
\* attached file
ArticleChoices ==
    { Section("akapit_1", Some("Przetarg X"), Text20251001, None, None),
      Section("akapit_1", None, Text32132025, None, None),
      Section("akapit_1", Some("Przetarg X"), None,
              Some([h3 |-> Some("Przetarg X"),
                    more_link |-> Some(Url("/full", <<>>, ""))]), None),
      Section("akapit_1", Some("Przetarg X"), None,
              Some([h3 |-> None, more_link |-> None]), None),
      Section("akapit_2", Some("Plan"), Text20251001, None, File) }

Container ==
    Some([h3 |-> Some("Pliki"), published |-> None, created |-> None,
          modified |-> Text20251001, file |-> File])

\* pages of the three kinds of the site: the search form, the result list
\* and the detail page
DomInputs ==
    { [EmptyDom EXCEPT !.token = t] : t \in {None, Some(""), Some("tok")} }
    \cup { [EmptyDom EXCEPT !.rows = r] : r \in SeqsUpTo(RowChoices, MaxRows) }
    \cup { [EmptyDom EXCEPT !.article = a, !.container = c, !.auction = x] :
             a \in {None} \cup {Some(s) : s \in ArticleChoices},
             c \in {None, Container}, x \in BOOLEAN }

\* crawl_url lines 70-84 for a fetched page, with the parsers of a list
CrawlPage(parsers) ==
    /\ call' = [fn |-> "crawl_url", parsers |-> parsers, url |-> call.url,
                dom |-> call.dom,
                gen |-> CrawlUrl(call.url, FALSE, call.url,
                                 Accepts(parsers, call.url, call.dom),
                                 PageResults(parsers, call.url, call.dom),
                                 FALSE)]
    /\ UNCHANGED crawlVars

CrawlPageMain ==
    /\ call.fn = "input"
    /\ CrawlPage(MainParsers)

CrawlPageNew ==
    /\ call.fn = "input"
    /\ CrawlPage(NewMainParsers)

InitParse ==
    /\ InitIdle
    /\ call \in [fn : {"input"}, url : UrlInputs, dom : DomInputs]

NextParse == CrawlPageMain \/ CrawlPageNew

SpecParse == InitParse /\ [][NextParse]_vars

-----------------------------------------------------------------------------
(* The run of main.py against a site of three kinds of pages: the search
   form, which carries the token; the result list, shown for a token-bearing
   search URL; and the detail pages.  The site answers every fetch, at the
   requested URL.  `call` holds the site. *)

\* seeds: the search without and with a blank-valued parameter, and a
\* detail page
SeedChoices ==
    { Url("/redir,szukaj", <<Param("szukaj", "kajetany")>>, ""),
      Url("/redir,szukaj", << Param("szukaj", "kajetany"),
                              Param("szukaj_data_od", "") >>, ""),
      DetailUrl }

\* the page behind the "read more" link of a preview
FullPage ==
    [EmptyDom EXCEPT !.article =
        Some(Section("akapit_1", Some("Przetarg X"), Text20251001, None, None))]

\* response.text of the site for url
SitePage(site, url) ==
    IF url.path = "/redir,szukaj"
    THEN IF UrlContains("_session_antiCSRF", url)
         THEN [EmptyDom EXCEPT !.rows = site.rows]
         ELSE [EmptyDom EXCEPT !.token = site.token]
    ELSE IF url.path = "/detail"
    THEN [EmptyDom EXCEPT !.article = site.article]
    ELSE FullPage

\* a store that already holds the item of the detail page
StoredDetail ==
    << [url |-> DetailUrl, main_title |-> Some("Przetarg X"),
        title |-> Some("Przetarg X"), description |-> Some("snippet"),
        attachment_url |-> None,
        published_at |-> Some([year |-> 2025, month |-> 10, day |-> 1]),
        created_at |-> None, last_modified_at |-> None] >>

\* main.py line 53: the crawl starts at the seed of the site
EnterCrawlSite ==
    /\ pc = "crawl"
    /\ Enter(call.seed)

\* crawl lines 43-44 with the parsers of main.py on the page of the site
VisitSiteEntry ==
    /\ pc = "loop"
    /\ idx <= Len(items_to_crawl)
    /\ LET url == items_to_crawl[idx].url
           dom == SitePage(call, url)
       IN  Visit(url, FALSE, url, Accepts(MainParsers, url, dom),
                 PageResults(MainParsers, url, dom), FALSE)

InitHandshake ==
    /\ call \in [fn : {"site"}, seed : SeedChoices,
                 token : {None, Some(""), Some("tok")},
                 rows : SeqsUpTo(RowChoices, MaxRows),
                 article : {None} \cup {Some(s) : s \in ArticleChoices},
                 store : {<<>>, StoredDetail}]
    /\ pc = "crawl"
    /\ client = [opened |-> 0, closed |-> 0, session |-> 0, open |-> FALSE]
    /\ items_to_crawl = <<>>
    /\ idx = 0
    /\ gen = NoGen
    /\ new_items = <<>>
    /\ fetch_calls = <<>>
    /\ ended = <<>>
    /\ sleep_calls = <<>>
    /\ repo = from_dataframe(call.store)
    /\ new_data = <<>>
    /\ csv_writes = 0
    /\ mails = <<>>

NextHandshake ==
    \/ EnterCrawlSite
    \/ VisitSiteEntry
    \/ HandleResult
    \/ FinishEntry
    \/ ExitCrawl
    \/ Run

SpecHandshake == InitHandshake /\ [][NextHandshake]_vars

-----------------------------------------------------------------------------
(* src/html_generator.py.  A date is the number of its day. *)

\* the dates of the items are the days 1..MaxDay
MaxDay == 3

\* an entry type that asks whether the dates differ
get_entry_type_differs(item) ==
    IF item.last_modified_at = None THEN "nowy"
    ELSE LET reference_dates ==
                 {d \in {item.created_at, item.published_at} : d # None}
         IN  IF reference_dates = {} THEN "nowy"
             ELSE LET earliest_date ==
                          CHOOSE d \in reference_dates :
                              \A e \in reference_dates : d[1] <= e[1]
                  IN  IF item.last_modified_at[1] # earliest_date[1]
                      THEN "aktualizacja" ELSE "nowy"

\* HTMLGenerator._get_entry_type lines 99-123; a date is always truthy
get_entry_type(item) ==
    IF item.last_modified_at = None THEN "nowy"
    ELSE LET reference_dates ==
                 {d \in {item.created_at, item.published_at} : d # None}
         IN  IF reference_dates = {} THEN "nowy"
             ELSE LET earliest_date ==
                          CHOOSE d \in reference_dates :
                              \A e \in reference_dates : d[1] <= e[1]
                  IN  IF item.last_modified_at[1] > earliest_date[1]
                      THEN "aktualizacja" ELSE "nowy"

GetEntryType ==
    /\ call.fn = "input"
    /\ call' = [fn |-> "_get_entry_type", item |-> call.item,
                result |-> get_entry_type(call.item)]
    /\ UNCHANGED crawlVars

InitEntryType ==
    /\ InitIdle
    /\ LET Dates == {None} \cup {Some(d) : d \in 1..MaxDay}
       IN  call \in [fn : {"input"},
                     item : [published_at : Dates, created_at : Dates,
                             last_modified_at : Dates]]

SpecEntryType == InitEntryType /\ [][GetEntryType]_vars

-----------------------------------------------------------------------------
(* src/crawler/new/crawler.py: Crawler.crawl(past_data).  crawl_url is the  *)
(* one of nadarzyn_bip up to its except clause, which re-raises (line 119). *)
(* call.past_data is the DataFrame handed to crawl.                         *)

\* Crawler._is_duplicate lines 77-92: a row with the title, the url and the
\* last_modified_at of the item; a comparison of the column with None
\* (an item without last_modified_at) is False for every row
is_duplicate(item, past_data) ==
    /\ past_data # <<>>
    /\ item.last_modified_at # None
    /\ \E k \in DOMAIN past_data :
          /\ past_data[k].title = item.title
          /\ past_data[k].url = item.url
          /\ past_data[k].last_modified_at = item.last_modified_at

\* crawl lines 54-55: the next work-list entry and the first next() of
\* crawl_url; the server answers with the requested URL, and the parsers
\* all accept the page or all reject it
VisitNewEntry ==
    /\ pc = "loop"
    /\ idx <= Len(items_to_crawl)
    /\ LET url == items_to_crawl[idx].url IN
       \E fetch_raised \in BOOLEAN, accepted \in BOOLEAN,
          parse_raises \in BOOLEAN :
       \E results \in SeqsUpTo(ResultChoices(url), MaxResults) :
          /\ Len(items_to_crawl) + NumRedirects(results) <= MaxEntries
          /\ fetch_raised => ~accepted
          /\ ~accepted => results = <<>> /\ ~parse_raises
          /\ Visit(url, fetch_raised, url, [p \in Parsers |-> accepted],
                   results, parse_raises)

\* crawl lines 55-70: one result of the generator; the duplicate test of
\* line 63 sees the item as the parser made it, the merge is line 67
HandleNewResult ==
    /\ pc = "iter"
    /\ gen.pending # <<>>
    /\ LET item == Head(gen.pending) IN
       /\ gen' = [gen EXCEPT !.pending = Tail(@), !.yielded = @ + 1]
       /\ IF item.type = "None"
          THEN UNCHANGED <<items_to_crawl, new_items>>
          ELSE IF item.type = "RedirectItem"
          THEN /\ items_to_crawl' = Append(items_to_crawl, item)
               /\ UNCHANGED new_items
          ELSE IF is_duplicate(item, call.past_data)
          THEN UNCHANGED <<items_to_crawl, new_items>>
          ELSE /\ new_items' = Append(new_items,
                       merge_with_redirect(item, items_to_crawl[idx]))
               /\ UNCHANGED items_to_crawl
    /\ UNCHANGED <<pc, client, idx, fetch_calls, ended, sleep_calls, repo,
                   new_data, csv_writes, mails, call>>

\* the generator is exhausted: crawl lines 72-73 and the next loop round;
\* or fetch or parse raised: crawl_url re-raises (lines 117-119), the
\* exception leaves the `with` block and crawl
FinishNewEntry ==
    /\ pc = "iter"
    /\ gen.pending = <<>>
    /\ LET raised == gen.fetch_raised \/ gen.parse_raises IN
       /\ ended' = Append(ended,
              [fetch_raised |-> gen.fetch_raised,
               how |-> IF raised THEN "raised" ELSE "returned"])
       /\ IF raised
          THEN /\ client' = HttpClientExit(client)
               /\ pc' = "raised"
               /\ UNCHANGED <<sleep_calls, idx>>
          ELSE /\ sleep_calls' = Append(sleep_calls, PacingDelay)
               /\ idx' = idx + 1
               /\ pc' = "loop"
               /\ UNCHANGED client
    /\ gen' = NoGen
    /\ UNCHANGED <<items_to_crawl, new_items, fetch_calls, repo, new_data,
                   csv_writes, mails, call>>

InitNew ==
    /\ pc = "crawl"
    /\ client = [opened |-> 0, closed |-> 0, session |-> 0, open |-> FALSE]
    /\ items_to_crawl = <<>>
    /\ idx = 0
    /\ gen = NoGen
    /\ new_items = <<>>
    /\ fetch_calls = <<>>
    /\ ended = <<>>
    /\ sleep_calls = <<>>
    /\ repo = <<>>
    /\ new_data = <<>>
    /\ csv_writes = 0
    /\ mails = <<>>
    /\ call \in [fn : {"crawl"}, past_data : PastCsvChoices]

NextNew ==
    \/ EnterCrawl
    \/ VisitNewEntry
    \/ HandleNewResult
    \/ FinishNewEntry
    \/ ExitCrawl

SpecNew == InitNew /\ [][NextNew]_vars

-----------------------------------------------------------------------------
(* ItemRepository under any sequence of its operations.  `repo` is _items,  *)
(* `call` the last operation: its arguments, _items before it, its return.  *)

\* ItemRepository.add_item lines 46-52: the value returned
add_item_returns(items, item) == ~exists(items, item)

\* ItemRepository.add_items lines 60-64: added_count
RECURSIVE add_items_returns(_, _)
add_items_returns(items, added) ==
    IF added = <<>> THEN 0
    ELSE (IF add_item_returns(items, Head(added)) THEN 1 ELSE 0)
         + add_items_returns(add_item(items, Head(added)), Tail(added))

\* the items handed to the repository: two that differ in one field, and a
\* third
RepoItems ==
    { ContentItem("u1", Some("Przetarg"), Some("Przetarg X"), None, None,
                  None, None, None),
      ContentItem("u1", Some("Przetarg"), Some("Przetarg X"),
                  Some("snippet"), None, None, None, None),
      ContentItem("u2", Some("Przetarg"), Some("Przetarg Y"), None, None,
                  None, None, Some("2025-10-01")) }

\* ItemRepository(items) lines 27-32; a list of at most MaxStore items
Construct ==
    /\ \E items \in SeqsUpTo(RepoItems, MaxStore) :
          /\ repo' = IF items # <<>> THEN add_items(<<>>, items) ELSE <<>>
          /\ call' = [fn |-> "__init__", items |-> items, before |-> <<>>,
                      result |-> None]
    /\ UNCHANGED <<pc, client, items_to_crawl, idx, gen, new_items,
                   fetch_calls, ended, sleep_calls, new_data, csv_writes,
                   mails>>

\* repository.add_item(item)
AddItem ==
    /\ \E item \in RepoItems :
          /\ repo' = add_item(repo, item)
          /\ call' = [fn |-> "add_item", items |-> <<item>>, before |-> repo,
                      result |-> Some(add_item_returns(repo, item))]
    /\ UNCHANGED <<pc, client, items_to_crawl, idx, gen, new_items,
                   fetch_calls, ended, sleep_calls, new_data, csv_writes,
                   mails>>

\* repository.add_items(items)
AddItems ==
    /\ \E items \in SeqsUpTo(RepoItems, MaxStore) :
          /\ repo' = add_items(repo, items)
          /\ call' = [fn |-> "add_items", items |-> items, before |-> repo,
                      result |-> Some(add_items_returns(repo, items))]
    /\ UNCHANGED <<pc, client, items_to_crawl, idx, gen, new_items,
                   fetch_calls, ended, sleep_calls, new_data, csv_writes,
                   mails>>

\* repository.clear() lines 66-69
Clear ==
    /\ repo' = <<>>
    /\ call' = [fn |-> "clear", items |-> <<>>, before |-> repo,
                result |-> None]
    /\ UNCHANGED <<pc, client, items_to_crawl, idx, gen, new_items,
                   fetch_calls, ended, sleep_calls, new_data, csv_writes,
                   mails>>

\* ItemRepository()
InitRepo ==
    /\ InitIdle
    /\ call = [fn |-> "__init__", items |-> <<>>, before |-> <<>>,
               result |-> None]

NextRepo == Construct \/ AddItem \/ AddItems \/ Clear

SpecRepo == InitRepo /\ [][NextRepo]_vars

-----------------------------------------------------------------------------
(* Crawler.crawl of nadarzyn_bip on a site of three pages that link to each *)
(* other: call.links[u] are the URLs the parser of page u yields as         *)
(* RedirectItems.  The crawl is one sequential loop, so a step that can be  *)
(* taken is taken.                                                          *)

\* a work-list the crawl is followed up to; longer than the longest
\* work-list of a site without a cycle (base, u1, u2, u2)
MaxWork == 5

SitePages == {base_url, "u1", "u2"}

\* what the parser of the page at url yields: a RedirectItem per link, in
\* the order of the page, then the item of the page
LinkResults(links, url) ==
    LET Redirect(u) == RedirectItem(u, None, None, None, None, None, None, None)
        InOrder(seq) == SelectSeq(seq, LAMBDA u : u \in links[url])
    IN  [i \in DOMAIN InOrder(<<base_url, "u1", "u2">>) |->
            Redirect(InOrder(<<base_url, "u1", "u2">>)[i])]
        \o <<CHOOSE c \in ContentChoices(url) : TRUE>>

\* crawl lines 43-44 on the page of the site
VisitLinkedEntry ==
    /\ pc = "loop"
    /\ idx <= Len(items_to_crawl)
    /\ LET url == items_to_crawl[idx].url
           results == LinkResults(call.links, url)
       IN  /\ Len(items_to_crawl) + NumRedirects(results) <= MaxWork
           /\ Visit(url, FALSE, url, [p \in Parsers |-> TRUE], results, FALSE)

InitLinks ==
    /\ pc = "crawl"
    /\ client = [opened |-> 0, closed |-> 0, session |-> 0, open |-> FALSE]
    /\ items_to_crawl = <<>>
    /\ idx = 0
    /\ gen = NoGen
    /\ new_items = <<>>
    /\ fetch_calls = <<>>
    /\ ended = <<>>
    /\ sleep_calls = <<>>
    /\ repo = <<>>
    /\ new_data = <<>>
    /\ csv_writes = 0
    /\ mails = <<>>
    /\ call \in [fn : {"links"}, links : [SitePages -> SUBSET SitePages]]

NextLinks ==
    \/ EnterCrawl
    \/ VisitLinkedEntry
    \/ HandleResult
    \/ FinishEntry
    \/ ExitCrawl

SpecLinks == InitLinks /\ [][NextLinks]_vars /\ WF_vars(NextLinks)

-----------------------------------------------------------------------------
(* Properties *)

\* the first parser, in list order, whose can_parse is true for the page
FirstAccepting(p) ==
    /\ call.accepts[p]
    /\ \A q \in Parsers : q < p => ~call.accepts[q]

\* C1: for every fetched page, parse is invoked on exactly one parser, the
\* first in list order whose can_parse is true; no later parser's parse is
\* invoked, also when it would accept the page.
C1_FirstAcceptingParserOnly ==
    (call.fn = "crawl_url" /\ ~call.fetch_raised) =>
        /\ \A p \in call.gen.parse_calls : FirstAccepting(p)
        /\ (\E p \in Parsers : call.accepts[p]) =>
               Cardinality(call.gen.parse_calls) = 1
        /\ (\A p \in Parsers : ~call.accepts[p]) =>
               call.gen.parse_calls = {}
        /\ call.gen.pending =
               IF call.gen.parse_calls = {} THEN <<>> ELSE call.results

\* a page accepted by parser 2 and by the later parser 3: parse went to 2
C1_Witness ==
    /\ call.fn = "crawl_url"
    /\ ~call.fetch_raised
    /\ call.accepts[2] /\ call.accepts[3] /\ ~call.accepts[1]
    /\ call.gen.parse_calls = {2}
    /\ call.gen.pending # <<>>

ItemFields == {"url", "main_title", "title", "description", "attachment_url",
               "published_at", "created_at", "last_modified_at"}

OptionalFields == {"description", "published_at", "created_at",
                   "last_modified_at"}

\* C2: merge_with_redirect is a coalesce: the result keeps every non-null
\* field of c unchanged, and each optional field that is null in c and
\* non-null in r carries r's value.
C2_Coalesce ==
    call.fn = "merge_with_redirect" =>
        /\ call.result.url = call.c.url
        /\ \A f \in ItemFields \ {"url"} :
               call.c[f] # None => call.result[f] = call.c[f]
        /\ \A f \in OptionalFields :
               (call.c[f] = None /\ call.r[f] # None) =>
                   call.result[f] = call.r[f]

\* C3: merging is idempotent: merging c.merge_with_redirect(r) with r again
\* yields an item equal to c.merge_with_redirect(r).
C3_Idempotent ==
    call.fn = "merge_again" => call.result = call.first

\* a merge that filled a field from the redirect, merged once more
C3_Witness ==
    /\ call.fn = "merge_again"
    /\ call.c.created_at = None
    /\ call.r.created_at = Some("2025-10-01")
    /\ call.r.published_at = Some("2025-10-02")
    /\ call.first.created_at = Some("2025-10-01")
    /\ call.first # call.c

\* the composite key of duplicate detection
DuplicateKey(item) == <<item.title, item.url, item.last_modified_at>>

\* C4: an item is recognized as a duplicate of a prior-store item exactly
\* when title, url and last_modified_at are all identical (also when
\* last_modified_at is absent in both), whatever the other fields are.
C4_CompositeKey ==
    call.fn = "exists" =>
        (call.result <=>
            \E k \in 1..Len(call.items) :
                DuplicateKey(call.items[k]) = DuplicateKey(call.item))

\* C5: the work-list is FIFO: every RedirectItem yielded by a parser is
\* appended to the tail of the work-list, and the entries are visited in the
\* order they were appended.
C5_Fifo ==
    [][ /\ Len(items_to_crawl') >= Len(items_to_crawl)
        /\ SubSeq(items_to_crawl', 1, Len(items_to_crawl)) = items_to_crawl
        /\ (/\ pc = "iter"
            /\ gen.pending # <<>>
            /\ Head(gen.pending).type = "RedirectItem") =>
               items_to_crawl' = Append(items_to_crawl, Head(gen.pending))
        /\ \A k \in 1..Len(fetch_calls') :
               /\ fetch_calls'[k].entry = k
               /\ k <= Len(items_to_crawl')
               /\ fetch_calls'[k].url = items_to_crawl'[k].url ]_vars

\* the seed page yielded two different redirects; the second one, found
\* while the first was queued, was visited last
C5_Witness ==
    /\ Len(fetch_calls) = 3
    /\ items_to_crawl[2].url # items_to_crawl[3].url
    /\ fetch_calls[2].url = items_to_crawl[2].url
    /\ fetch_calls[3].url = items_to_crawl[3].url

\* C6: a crawl that visits N work-list entries invokes the pacing delay of
\* 1.5 seconds exactly N times, once after each visited entry, whether the
\* entry produced items, nothing, or a failure.
C6_Pacing ==
    /\ \A k \in 1..Len(sleep_calls) : sleep_calls[k] = PacingDelay
    /\ pc = "iter" => Len(sleep_calls) = Len(fetch_calls) - 1
    /\ pc \in {"loop", "crawled", "done"} =>
           /\ Len(sleep_calls) = Len(fetch_calls)
           /\ Len(sleep_calls) = Len(ended)
    /\ pc \in {"crawled", "done"} => Len(sleep_calls) = Len(items_to_crawl)

\* a finished crawl of three entries: one failed, one produced an item
C6_Witness ==
    /\ pc = "crawled"
    /\ Len(items_to_crawl) = 3
    /\ Len(sleep_calls) = 3
    /\ fetch_calls[2].raised
    /\ ~fetch_calls[3].raised
    /\ Len(new_items) = 1

\* C7: one HTTP client session is opened before the first fetch, is used for
\* every fetch of the crawl and is closed exactly once when crawl ends, also
\* when a fetch raised partway through a multi-URL crawl.
C7_SessionScoped ==
    /\ client.opened <= 1
    /\ client.closed <= client.opened
    /\ \A k \in 1..Len(fetch_calls) :
           fetch_calls[k].session = 1 /\ fetch_calls[k].open
    /\ pc \in {"loop", "iter"} =>
           client.opened = 1 /\ client.closed = 0 /\ client.open
    /\ pc \in {"crawled", "done"} =>
           client.opened = 1 /\ client.closed = 1 /\ ~client.open

\* a finished crawl of three entries whose second fetch raised
C7_Witness ==
    /\ pc = "crawled"
    /\ Len(fetch_calls) = 3
    /\ fetch_calls[2].raised
    /\ client.closed = 1

\* C8: when the fetch raises, crawl_url propagates the exception to the code
\* iterating it; it does not end normally with an empty result sequence.
C8_FetchErrorPropagates ==
    \A k \in 1..Len(ended) : ended[k].fetch_raised => ended[k].how = "raised"

\* C9: a fetch failure for the seed URL is fatal: crawl does not return
\* normally, and the run neither writes the store nor sends mail.
C9_SeedFailureFatal ==
    (Len(fetch_calls) >= 1 /\ fetch_calls[1].raised) =>
        /\ pc \notin {"crawled", "done"}
        /\ csv_writes = 0
        /\ mails = <<>>

\* C10: every work-list entry is consumed exactly once: the number of fetch
\* calls equals the number of entries, and no entry is fetched a second
\* time, also after its fetch failed.
C10_EachEntryFetchedOnce ==
    /\ Len(fetch_calls) <= Len(items_to_crawl)
    /\ \A k \in 1..Len(fetch_calls) :
           fetch_calls[k].entry \in 1..Len(items_to_crawl)
    /\ \A j, k \in 1..Len(fetch_calls) :
           fetch_calls[j].entry = fetch_calls[k].entry => j = k
    /\ pc \in {"crawled", "done"} => Len(fetch_calls) = Len(items_to_crawl)

\* a finished crawl of three entries, the fetch of the second having failed
C10_Witness ==
    /\ pc = "crawled"
    /\ Len(items_to_crawl) = 3
    /\ Len(fetch_calls) = 3
    /\ fetch_calls[2].raised
    /\ fetch_calls[3].entry = 3

\* a fetched page for which no parser's can_parse is true
NoSuitableParser == pc = "iter" /\ ~gen.fetch_raised /\ gen.parse_calls = {}

\* C11: when no parser's can_parse is true for a fetched page, crawl_url
\* yields nothing and raises nothing: neither the accumulator nor the
\* work-list changes, and the crawl goes on with the next entry.
C11_NoParserAbandonsUrl ==
    [][ NoSuitableParser =>
            /\ gen.pending = <<>>
            /\ new_items' = new_items
            /\ items_to_crawl' = items_to_crawl
            /\ ended' = Append(ended, [fetch_raised |-> FALSE,
                                       how |-> "returned"])
            /\ pc' = "loop"
            /\ idx' = idx + 1 ]_vars

\* the second entry has no suitable parser while a third one is queued
C11_Witness ==
    /\ NoSuitableParser
    /\ idx = 2
    /\ Len(items_to_crawl) = 3
    /\ gen.yielded = 0

\* C12: a None result is skipped: it adds nothing to the accumulator and
\* nothing to the work-list, and the remaining results of the page are
\* still processed.
C12_NoneResultSkipped ==
    [][ (/\ pc = "iter"
         /\ gen.pending # <<>>
         /\ Head(gen.pending).type = "None") =>
            /\ new_items' = new_items
            /\ items_to_crawl' = items_to_crawl
            /\ gen'.pending = Tail(gen.pending)
            /\ pc' = "iter"
            /\ idx' = idx ]_vars

\* the seed page yielded a None and a ContentItem: one item was collected
C12_Witness ==
    /\ pc = "iter"
    /\ idx = 1
    /\ gen.yielded = 2
    /\ Len(new_items) = 1
    /\ Len(items_to_crawl) = 1

\* C13: parser selection and parsing use the final URL of the response, not
\* the requested one: when the fetch of u resolves to u', can_parse and
\* parse are called with u'.
C13_ResolvedUrlUsed ==
    (call.fn = "crawl_url" /\ ~call.fetch_raised) =>
        call.gen.resolved_url = call.resolved_url

\* a fetch that resolved to another URL, handled by a parser
C13_Witness ==
    /\ call.fn = "crawl_url"
    /\ ~call.fetch_raised
    /\ call.resolved_url # call.url
    /\ call.gen.resolved_url = "final"
    /\ call.gen.parse_calls # {}

\* the text of a finished extract_datetime call
CallText == IF call.text = None THEN <<>> ELSE call.text[1]

\* the first pattern of the documented order DD.MM.YYYY, YYYY-MM-DD,
\* YYYY-MM-DD HH:MM that matches the text, with its format; 0 when none does
FirstMatching(text) ==
    IF search(text, PolishDate) # 0
    THEN [regex |-> PolishDate, format |-> "%d.%m.%Y"]
    ELSE IF search(text, IsoDate) # 0
    THEN [regex |-> IsoDate, format |-> "%Y-%m-%d"]
    ELSE IF search(text, IsoDateTime) # 0
    THEN [regex |-> IsoDateTime, format |-> "%Y-%m-%d %H:%M"]
    ELSE [regex |-> <<>>, format |-> ""]

\* the leftmost match of the first matching pattern, parsed
FirstMatchParsed(text) ==
    LET p == FirstMatching(text)
    IN  strptime(group(text, p.regex, search(text, p.regex)), p.format)

\* C15: extract_datetime stops at the first pattern, in list order, that
\* matches: when that match is not a calendar date the result is None, also
\* when a later pattern matches a valid date in the same text.
C15_InvalidMatchStops ==
    (/\ call.fn = "extract_datetime"
     /\ FirstMatching(CallText).regex # <<>>
     /\ FirstMatchParsed(CallText).raised # None) =>
        call.result = Return(None)

\* "32.13.2025 2025-03-16": the invalid first match hides the valid ISO date
C15_Witness ==
    /\ call.fn = "extract_datetime"
    /\ search(CallText, PolishDate) = 1
    /\ FirstMatchParsed(CallText).raised # None
    /\ search(CallText, IsoDate) # 0
    /\ strptime(group(CallText, IsoDate, search(CallText, IsoDate)),
                "%Y-%m-%d").raised = None
    /\ call.result = Return(None)

\* some substring of text has the shape of regex
HasForm(text, regex) ==
    \E i \in 1..Len(text) :
        /\ i + Len(regex) - 1 <= Len(text)
        /\ \A k \in 1..Len(regex) : ElementMatches(regex[k], text[i + k - 1])

\* C16: extract_datetime returns None, and raises nothing, for None, for the
\* empty string, for whitespace-only text and for every text without a
\* substring of the form DD.MM.YYYY or YYYY-MM-DD.
C16_NoDateNoResult ==
    (/\ call.fn = "extract_datetime"
     /\ ~HasForm(CallText, PolishDate)
     /\ ~HasForm(CallText, IsoDate)) =>
        call.result = Return(None)

\* "2025-3-15 15/03/2025": no zero padding, other separators
C16_Witness ==
    /\ call.fn = "extract_datetime"
    /\ Len(CallText) = 20
    /\ CallText[5] = "-" /\ CallText[7] = "-" /\ CallText[13] = "/"
    /\ ~HasForm(CallText, PolishDate)
    /\ ~HasForm(CallText, IsoDate)
    /\ call.result = Return(None)

\* C17: the pattern listed earliest wins, wherever its match stands in the
\* text: the result is the parse of the leftmost match of the first of
\* DD.MM.YYYY, YYYY-MM-DD, YYYY-MM-DD HH:MM that matches; a returned date
\* always has time 00:00, so the third pattern never produces the result.
C17_ListOrderPriority ==
    (call.fn = "extract_datetime" /\ FirstMatching(CallText).regex # <<>>) =>
        /\ call.result.value = FirstMatchParsed(CallText).value
        /\ FirstMatching(CallText).regex # IsoDateTime
        /\ call.result.value # None =>
               call.result.value[1].hour = 0 /\ call.result.value[1].minute = 0

\* "2025-03-16 15.03.2025": the ISO date stands first in the text and the
\* result is 15 March 2025, 00:00
C17_Witness ==
    /\ call.fn = "extract_datetime"
    /\ search(CallText, IsoDate) = 1
    /\ search(CallText, PolishDate) > 1
    /\ call.result = Return(Some([year |-> 2025, month |-> 3, day |-> 15,
                                  hour |-> 0, minute |-> 0]))

\* the parser of class p handled the page of the finished call
HandledBy(p) ==
    /\ call.fn = "crawl_url"
    /\ \E i \in call.gen.parse_calls : call.parsers[i] = p

Count(seq, x) == Cardinality({i \in DOMAIN seq : seq[i] = x})

\* two query strings have the same parameters, each as many times
SameParams(q1, q2) ==
    /\ Len(q1) = Len(q2)
    /\ \A i \in DOMAIN q1 : Count(q1, q1[i]) = Count(q2, q1[i])

NonBlank(query) == SelectSeq(query, LAMBDA p : p.value # "")

\* what the configurator does with a page, the emitted URL carrying the
\* parameters `kept` of the original URL
ConfiguratorContract(kept) ==
    call.fn = "crawl_url" =>
        /\ HandledBy("SearchPageConfiguratorParser") <=>
               (/\ UrlContains("/redir,szukaj", call.url)
                /\ ~UrlContains("_session_antiCSRF", call.url))
        /\ (HandledBy("SearchPageConfiguratorParser")
                /\ Truthy(call.dom.token)) =>
               /\ Len(call.gen.pending) = 1
               /\ call.gen.pending[1].type = "RedirectItem"
               /\ call.gen.pending[1].url.path = call.url.path
               /\ SameParams(call.gen.pending[1].url.query,
                             Append(kept, Param("_session_antiCSRF",
                                                call.dom.token[1])))
        /\ (HandledBy("SearchPageConfiguratorParser")
                /\ ~Truthy(call.dom.token)) =>
               call.gen.pending = <<>>

\* C18 (amended): SearchPageConfiguratorParser accepts exactly the URLs that
\* contain "/redir,szukaj" and not "_session_antiCSRF"; with a token input
\* of non-empty value it yields exactly one RedirectItem whose URL has the
\* same path and the query parameters of the original URL that have a
\* non-blank value, plus _session_antiCSRF=<token>; parameters with a blank
\* value are dropped; without a token it yields nothing.
C18_ConfiguratorAddsToken ==
    ConfiguratorContract(IF call.fn = "crawl_url"
                         THEN NonBlank(call.url.query) ELSE <<>>)

\* C18 as stated: every query parameter of the original URL is kept
C18_Original ==
    ConfiguratorContract(IF call.fn = "crawl_url"
                         THEN call.url.query ELSE <<>>)

\* a seed with a blank-valued parameter, on a page with a token
C18_Witness ==
    /\ HandledBy("SearchPageConfiguratorParser")
    /\ call.dom.token = Some("tok")
    /\ call.url.query = << Param("szukaj", "kajetany"),
                           Param("szukaj_data_od", "") >>
    /\ call.gen.pending[1].url.query =
           << Param("szukaj", "kajetany"), Param("_session_antiCSRF", "tok") >>

\* the rows of the page that have a citation link
Linked(rows) == SelectSeq(rows, LAMBDA r : r.link # None)

Redirects(results) == SelectSeq(results, LAMBDA x : x.type = "RedirectItem")

\* C19 (amended): on a token-bearing search page SearchPageResultsParser
\* produces one RedirectItem per result row that has a citation link,
\* carrying the row's title (the placeholder when the row has none) as
\* main_title and title, its snippet as description and the link as url; a
\* row without a link gives None and no RedirectItem.
C19_RedirectPerLinkedRow ==
    HandledBy("SearchPageResultsParser") =>
        LET rows == Linked(call.dom.rows)
            reds == Redirects(call.gen.pending)
        IN  /\ Len(call.gen.pending) = Len(call.dom.rows)
            /\ Len(reds) = Len(rows)
            /\ \A i \in DOMAIN rows :
                   /\ reds[i].url = rows[i].link[1]
                   /\ reds[i].main_title =
                          PyOr(rows[i].title, Some("Brak tytulu"))
                   /\ reds[i].title = reds[i].main_title
                   /\ reds[i].description = rows[i].snippet

\* C19 as stated: as many RedirectItems as result rows
C19_Original ==
    HandledBy("SearchPageResultsParser") =>
        Len(Redirects(call.gen.pending)) = Len(call.dom.rows)

\* two rows, the second without a link: one RedirectItem and one None
C19_Witness ==
    /\ HandledBy("SearchPageResultsParser")
    /\ Len(call.dom.rows) = 2
    /\ call.dom.rows[1].link # None
    /\ call.dom.rows[2].link = None
    /\ Len(Redirects(call.gen.pending)) = 1
    /\ call.gen.pending[2] = NoneResult

\* C20: FullArticleParser is the last element of every configured parser
\* list, it handles a page only when every other parser of the list rejects
\* the page, and some parser handles every fetched page.
C20_FallbackLast ==
    call.fn = "crawl_url" =>
        LET n == Len(call.parsers)
        IN  /\ call.parsers[n] = "FullArticleParser"
            /\ \A i \in 1..(n - 1) : call.parsers[i] # "FullArticleParser"
            /\ call.gen.parse_calls # {}
            /\ HandledBy("FullArticleParser") =>
                   \A i \in 1..(n - 1) :
                       ~can_parse(call.parsers[i], call.url, call.dom)

\* a detail page without fragment falls through the list of main.py
C20_Witness ==
    /\ HandledBy("FullArticleParser")
    /\ call.parsers = MainParsers
    /\ call.url.path = "/detail"
    /\ call.url.fragment = ""
    /\ call.dom.article # None
    /\ Len(call.gen.pending) = 1

\* the site of the end-to-end scenario: a search seed without token, a form
\* page with a token, one result link, to the detail page with fragment
\* akapit_1, whose section of that id is a full article
HandshakeScenario ==
    /\ call.fn = "site"
    /\ call.seed.path = "/redir,szukaj"
    /\ ~UrlContains("_session_antiCSRF", call.seed)
    /\ Truthy(call.token)
    /\ Len(call.rows) = 1
    /\ call.rows[1].link = Some(DetailUrl)
    /\ call.article # None
    /\ call.article[1].id = "akapit_1"
    /\ call.article[1].brief = None

\* the parser of main.py's list that handles the page being visited
Handler == {MainParsers[i] : i \in gen.parse_calls}

\* C14: from a seed search URL without token the crawl visits, in order, the
\* seed page, handled by the search-configurator, the token-bearing page,
\* handled by the search-results parser, and the detail page with fragment
\* akapit_1, handled by the article parser; it ends with exactly one
\* ContentItem in the accumulator, whose url ends in #akapit_1 and whose
\* title and published_at are those of the article section, and with an
\* empty prior store that item is the new data of the run.
C14_Handshake ==
    HandshakeScenario =>
        /\ Len(items_to_crawl) <= 3
        /\ (pc = "iter" /\ idx = 1) =>
               /\ gen.resolved_url = call.seed
               /\ Handler = {"SearchPageConfiguratorParser"}
        /\ (pc = "iter" /\ idx = 2) =>
               /\ gen.resolved_url.path = "/redir,szukaj"
               /\ \E i \in DOMAIN gen.resolved_url.query :
                      gen.resolved_url.query[i] =
                          Param("_session_antiCSRF", call.token[1])
               /\ Handler = {"SearchPageResultsParser"}
        /\ (pc = "iter" /\ idx = 3) =>
               /\ gen.resolved_url = DetailUrl
               /\ Handler = {"ArticleParser"}
        /\ pc \in {"crawled", "done"} =>
               /\ Len(fetch_calls) = 3
               /\ Len(new_items) = 1
               /\ new_items[1].type = "ContentItem"
               /\ new_items[1].url.fragment = "akapit_1"
               /\ new_items[1].title = extract_title(call.article[1])
               /\ new_items[1].published_at =
                      to_date(extract_datetime(call.article[1].published).value)
        /\ (pc = "done" /\ call.store = <<>>) => new_data = new_items

\* the run ended with the article "Przetarg X" of 1 October 2025, mailed
C14_Witness ==
    /\ HandshakeScenario
    /\ pc = "done"
    /\ call.store = <<>>
    /\ Len(fetch_calls) = 3
    /\ new_items[1].title = Some("Przetarg X")
    /\ new_items[1].description = Some("snippet")
    /\ new_items[1].published_at = Some([year |-> 2025, month |-> 10, day |-> 1])
    /\ mails = <<new_items>>

\* C21: the store file is rewritten only after a fully successful crawl: a
\* run in which the fetch (or the parse) of a visited URL failed leaves it
\* unchanged, and so does a run that found no new items.  The formula takes
\* the failed fetches, which the run keeps in fetch_calls.
C21_StoreOnlyAfterSuccess ==
    pc = "done" =>
        /\ (\E i \in DOMAIN fetch_calls : fetch_calls[i].raised) =>
               csv_writes = 0
        /\ new_data = <<>> => csv_writes = 0

\* C22: the items handed to email generation are the items the run added to
\* the store: none of them is in the prior-run store, none appears twice,
\* and no mail is sent when there is none.
C22_MailIsWhatWasStored ==
    [][ (pc = "crawled" /\ pc' = "done") =>
            IF new_data' = <<>>
            THEN mails' = mails /\ repo' = repo
            ELSE /\ mails' = Append(mails, new_data')
                 /\ repo' = repo \o new_data'
                 /\ \A i \in DOMAIN new_data' : ~exists(repo, new_data'[i])
                 /\ \A i, j \in DOMAIN new_data' :
                        new_data'[i] = new_data'[j] => i = j ]_vars

\* the earliest of created_at and published_at of the item of the call, 0
\* when it has neither
EarliestReference ==
    LET days == {d[1] : d \in {call.item.created_at, call.item.published_at}
                                \ {None}}
    IN  IF days = {} THEN 0 ELSE CHOOSE d \in days : \A e \in days : d <= e

\* C23 (amended): an item is an update ('aktualizacja') exactly when
\* last_modified_at is present, at least one of created_at / published_at
\* is present, and last_modified_at is later than the earliest of those
\* reference dates; in every other case, also when last_modified_at is
\* earlier than that date, it is new ('nowy').
C23_EntryType ==
    call.fn = "_get_entry_type" =>
        /\ call.result \in {"aktualizacja", "nowy"}
        /\ call.result = "aktualizacja" <=>
               /\ call.item.last_modified_at # None
               /\ EarliestReference # 0
               /\ call.item.last_modified_at[1] > EarliestReference

\* C23 as stated: an update exactly when last_modified_at differs from the
\* earliest reference date
C23_Original ==
    call.fn = "_get_entry_type" =>
        (call.result = "aktualizacja" <=>
               /\ call.item.last_modified_at # None
               /\ EarliestReference # 0
               /\ call.item.last_modified_at[1] # EarliestReference)

\* modified on day 1, created on day 2, published on day 3: new
C23_Witness ==
    /\ call.fn = "_get_entry_type"
    /\ call.item = [published_at |-> Some(3), created_at |-> Some(2),
                    last_modified_at |-> Some(1)]
    /\ call.result = "nowy"

\* C24: every ContentItem is merged with the RedirectItem whose fetch
\* produced its page before the duplicate test, so that no item of the
\* accumulator of Crawler.crawl(past_data) is, as merged, a duplicate of a
\* row of past_data.
C24_DuplicateTestOnMerged ==
    \A i \in DOMAIN new_items : ~is_duplicate(new_items[i], call.past_data)

\* C27: when the crawl has ended and the seed entry did not fail, every
\* entry of the work-list has been visited, the entries queued behind a
\* failing one included.
C27_CrawlProceeds ==
    (/\ pc \in {"crawled", "raised"}
     /\ ended # <<>>
     /\ ended[1].how = "returned") =>
        \A k \in DOMAIN items_to_crawl :
            \E f \in DOMAIN fetch_calls : fetch_calls[f].entry = k

\* C25: on a site whose result list has one row, the only chain to the page
\* behind the "read more" link is result row, article preview, full
\* article; the item of that page carries the description of every
\* RedirectItem of the work-list that has one (the search snippet of the
\* row).
C25_ChainMetadata ==
    (call.fn = "site" /\ Len(call.rows) = 1) =>
        \A i \in DOMAIN new_items :
            new_items[i].url.path = "/full" =>
                \A k \in DOMAIN items_to_crawl :
                    Truthy(items_to_crawl[k].description) =>
                        new_items[i].description =
                            items_to_crawl[k].description

\* the page of the finished call is a preview: its URL fragment names an
\* article section that holds a truncated preview
PreviewPage ==
    /\ call.fn = "crawl_url"
    /\ In("akapit_", call.url.fragment)
    /\ BriefOf(call.dom, call.url.fragment) # None

\* a parser in front of ArticleBriefParser in the list accepts the page
AcceptedEarlier ==
    \E i \in DOMAIN call.parsers :
        /\ call.parsers[i] = "ArticleBriefParser"
        /\ \E j \in 1..(i - 1) :
               can_parse(call.parsers[j], call.url, call.dom)

\* C26 (amended): with either configured parser list, a preview page is
\* never handled by ArticleParser; it is handled by ArticleBriefParser
\* exactly when no parser in front of it accepts the page (the search
\* parsers accept by the URL, the auction parser by the page); handled by
\* ArticleBriefParser, the page yields no ContentItem: it yields one
\* RedirectItem to the 'read more' target with the title of the preview
\* when the preview has such a link, and nothing when it has none.
C26_PreviewHandling ==
    PreviewPage =>
        LET brief == BriefOf(call.dom, call.url.fragment)[1]
            title == extract_title(brief)
        IN  /\ ~HandledBy("ArticleParser")
            /\ HandledBy("ArticleBriefParser") <=> ~AcceptedEarlier
            /\ HandledBy("ArticleBriefParser") =>
                   call.gen.pending =
                       IF brief.more_link = None THEN <<>>
                       ELSE << RedirectItem(brief.more_link[1], title, title,
                                            None, None, None, None, None) >>

\* C26 as stated: every preview page is handled by ArticleBriefParser and
\* yields a RedirectItem to the 'read more' target
C26_Original ==
    PreviewPage =>
        /\ HandledBy("ArticleBriefParser")
        /\ ~HandledBy("ArticleParser")
        /\ Len(call.gen.pending) = 1
        /\ call.gen.pending[1].type = "RedirectItem"
        /\ call.gen.pending[1].title =
               extract_title(BriefOf(call.dom, call.url.fragment)[1])

\* the preview of the detail page, with the parsers of main.py
C26_Witness ==
    /\ PreviewPage
    /\ call.parsers = MainParsers
    /\ HandledBy("ArticleBriefParser")
    /\ Len(call.gen.pending) = 1
    /\ call.gen.pending[1].url = Url("/full", <<>>, "")
    /\ call.gen.pending[1].title = Some("Przetarg X")

Distinct(seq) == \A i, j \in DOMAIN seq : seq[i] = seq[j] => i = j

\* seq holds, once each and in the order of their first occurrence in
\* added, the items of added that are not in before
FirstNew(seq, before, added) ==
    /\ Distinct(seq)
    /\ {seq[i] : i \in DOMAIN seq} =
           {added[i] : i \in DOMAIN added} \ {before[i] : i \in DOMAIN before}
    /\ \A i, j \in DOMAIN seq :
           i < j =>
               \E k \in DOMAIN added :
                   /\ added[k] = seq[i]
                   /\ \A l \in 1..k : added[l] # seq[j]

\* C30: after any sequence of construction, add_item, add_items and clear
\* the items of the repository are pairwise distinct; an operation that adds
\* leaves the items it found in their places and appends behind them, in
\* the order given, the items that were absent, once each; add_item returns
\* true exactly when its item was absent and changes nothing when it returns
\* false; add_items returns the number of items it appended.
C30_RepositoryDistinct ==
    (call.fn \in {"__init__", "add_item", "add_items", "clear"}
     /\ pc = "idle") =>
        /\ Distinct(repo)
        /\ call.fn = "clear" => repo = <<>>
        /\ call.fn # "clear" =>
               /\ Len(repo) >= Len(call.before)
               /\ SubSeq(repo, 1, Len(call.before)) = call.before
               /\ FirstNew(SubSeq(repo, Len(call.before) + 1, Len(repo)),
                           call.before, call.items)
        /\ call.fn = "add_item" =>
               /\ call.result = Some(~exists(call.before, call.items[1]))
               /\ call.result = Some(FALSE) => repo = call.before
               /\ call.result = Some(TRUE) =>
                      repo = Append(call.before, call.items[1])
        /\ call.fn = "add_items" =>
               call.result = Some(Len(repo) - Len(call.before))

\* add_items of a list that names an absent item twice and a present one:
\* one item is appended
C30_Witness ==
    /\ call.fn = "add_items"
    /\ Len(call.before) = 1
    /\ Len(call.items) = 2
    /\ call.items[1] = call.items[2]
    /\ call.result = Some(1)
    /\ Len(repo) = 2

\* the work-list entry on whose page entry k was found: the entries found on
\* a page are appended together, in the order the pages are visited
RECURSIVE ParentFrom(_, _, _)
ParentFrom(k, i, last) ==
    LET end == last + Cardinality(call.links[items_to_crawl[i].url])
    IN  IF k <= end THEN i ELSE ParentFrom(k, i + 1, end)

\* the entries of the chain of redirects that led to entry k
RECURSIVE Ancestors(_)
Ancestors(k) ==
    IF k = 1 THEN {}
    ELSE {ParentFrom(k, 1, 1)} \cup Ancestors(ParentFrom(k, 1, 1))

\* C28: on a finite site, whose pages answer every fetch alike, every crawl
\* exhausts the work-list and returns, also when pages redirect to each
\* other in a cycle; so no URL is queued through a chain of redirects that
\* already went through that URL (such a chain repeats for ever and the
\* work-list grows without bound).
C28_NoUrlTwiceOnChain ==
    call.fn = "links" =>
        \A k \in DOMAIN items_to_crawl :
            \A a \in Ancestors(k) :
                items_to_crawl[a].url # items_to_crawl[k].url

\* a cycle of redirects can be reached from the seed
RECURSIVE Reach(_, _)
Reach(S, n) ==
    IF n = 0 THEN S
    ELSE Reach(S \cup UNION {call.links[u] : u \in S}, n - 1)

Cyclic ==
    \E u \in Reach({base_url}, Cardinality(SitePages)) :
        u \in Reach(call.links[u], Cardinality(SitePages))

\* the two sides of C28 as properties of the fair crawl: without a cycle the
\* crawl returns, two pages redirecting to the same URL included; with a
\* cycle it never does
AcyclicCrawlTerminates == (~Cyclic) => <>(pc = "crawled")

CyclicCrawlNeverReturns == Cyclic => [](pc # "crawled")

====
